---- MODULE Spec2Model ----
(***************************************************************************)
(* Model of the job board scanner (main.py): the source adapters, the      *)
(* keyword filter, the seen-set store and the scan cycle check_jobs.       *)
(***************************************************************************)
EXTENDS Naturals, Sequences, FiniteSets, TLC

VARIABLES
    use_redis,       \* ScannerConfig.use_redis
    send_emails,     \* ScannerConfig.send_emails
    title_keywords,  \* JobScanner.title_keywords
    boards,          \* what each configured API currently serves
    seen_jobs,       \* the store's set 'seen_jobs'
    pc,              \* per run: position inside check_jobs
    all_jobs,        \* per run: check_jobs' all_jobs
    new_jobs,        \* per run: check_jobs' new_jobs
    idx,             \* per run: position of the running for-loop
    outcome,         \* per run: how check_jobs ended
    job_title,       \* argument of the last _check_title_keywords call
    matches,         \* result of the last _check_title_keywords call
    title_checked,   \* whether _check_title_keywords has been called
    \* history of the cycle in progress (per run)
    seen_at_start,   \* seen_jobs when the cycle started
    failed_sources,  \* sources whose adapter hit an error in this cycle
    sent,            \* the batches handed to send_email_alert in this cycle
    sent_ok,         \* "none", "ok" or "failed": what send_email_alert returned
    store_error,     \* "none", "sismember" or "sadd": the store call that raised
    \* history across cycles
    cycles,          \* number of cycles started
    delivered,       \* per URL: occurrences in successfully delivered digests
    prev,            \* the last finished cycle
    first            \* the first cycle that computed its batch

vars == <<use_redis, send_emails, title_keywords, boards, seen_jobs, pc,
          all_jobs, new_jobs, idx, outcome, job_title, matches, title_checked,
          seen_at_start, failed_sources, sent, sent_ok, store_error,
          cycles, delivered, prev, first>>

----------------------------------------------------------------------------
(* Bounds *)

MaxCycles == 2

MaxTitleLen == 3

MaxKeywordLen == 2

----------------------------------------------------------------------------
(* Strings are sequences of characters. *)

\* str.lower() on one character
LowerChar(c) ==
    CASE c = "E" -> "e"
      [] c = "N" -> "n"
      [] c = "G" -> "g"
      [] c = "R" -> "r"
      [] c = "C" -> "c"
      [] c = "S" -> "s"
      [] c = "I" -> "i"
      [] OTHER -> c

\* str.lower()
Lower(s) == [i \in 1..Len(s) |-> LowerChar(s[i])]

\* the `in` operator on two strings: needle occurs in hay
Contains(hay, needle) ==
    \E off \in 0..(Len(hay) - Len(needle)) :
        \A i \in 1..Len(needle) : hay[off + i] = needle[i]

\* one term of the generator of line 211
KeywordMatch(title_lower, keyword) == Contains(title_lower, Lower(keyword))

\* _check_title_keywords comparing the title as written (no title.lower())
CheckTitleKeywordsCaseSensitive(title, keywords) ==
    IF keywords = <<>> THEN TRUE
    ELSE \E k \in 1..Len(keywords) : KeywordMatch(title, keywords[k])

\* JobScanner._check_title_keywords, with self.title_keywords as `keywords`
CheckTitleKeywords(title, keywords) ==
    IF keywords = <<>> THEN TRUE
    ELSE LET title_lower == Lower(title)
         IN  \E k \in 1..Len(keywords) : KeywordMatch(title_lower, keywords[k])

----------------------------------------------------------------------------
(* JSON values served by the APIs.  An object is a record that has exactly  *)
(* the keys present; null is JsonNull; a string that may be null is boxed.  *)

JsonNull == [json |-> "null"]

IsNull(v) == "json" \in DOMAIN v

PyStr(s) == [str |-> s]

\* dict.get(key, default)
Get(obj, key, default) == IF key \in DOMAIN obj THEN obj[key] ELSE default

\* JobScanner.api_config
api_config ==
    << [type |-> "greenhouse", url |-> "boards/deepmind",  company |-> "Deepmind"],
       [type |-> "greenhouse", url |-> "boards/anthropic", company |-> "Anthropic"],
       [type |-> "openai",     url |-> "ashby/graphql",    company |-> "OpenAI"] >>

Sources == DOMAIN api_config

----------------------------------------------------------------------------
(* Source adapters.  A walk carries [all_jobs, raised]: the list built so   *)
(* far and whether an exception has ended the try block.                    *)

\* lines 91-93 and 100-102: job_copy = dict(job); stamp; append
CopyJob(st, job, company) ==
    IF IsNull(job)
    THEN [st EXCEPT !.raised = TRUE]
    ELSE [st EXCEPT !.all_jobs =
             Append(@, [k \in DOMAIN job \cup {"company"} |->
                           IF k = "company" THEN company ELSE job[k]])]

RECURSIVE CopyJobs(_, _, _)
\* the loops of lines 90 and 99
CopyJobs(st, jobs, company) ==
    IF st.raised \/ jobs = <<>> THEN st
    ELSE CopyJobs(CopyJob(st, Head(jobs), company), Tail(jobs), company)

\* lines 89-93 and 98-102: if d.get('jobs'): for job in d['jobs']
JobsOf(st, dept, company) ==
    IF IsNull(dept)
    THEN [st EXCEPT !.raised = TRUE]
    ELSE CopyJobs(st, Get(dept, "jobs", <<>>), company)

RECURSIVE WalkChildren(_, _, _)
\* lines 97-102: for child in dept['children']
WalkChildren(st, children, company) ==
    IF st.raised \/ children = <<>> THEN st
    ELSE WalkChildren(JobsOf(st, Head(children), company), Tail(children), company)

\* lines 88-102: the body of `for dept in departments`
WalkDepartment(st, dept, company) ==
    LET own == JobsOf(st, dept, company)
    IN  IF own.raised THEN own
        ELSE WalkChildren(own, Get(dept, "children", <<>>), company)

RECURSIVE WalkDepartments(_, _, _)
\* lines 87-102: for dept in departments
WalkDepartments(st, departments, company) ==
    IF st.raised \/ departments = <<>> THEN st
    ELSE WalkDepartments(WalkDepartment(st, Head(departments), company),
                         Tail(departments), company)

\* JobScanner.fetch_greenhouse_jobs as [all_jobs, raised]; http_error: the request
\* of lines 83-84 raises
GreenhouseRun(config, response, http_error) ==
    IF http_error
    THEN [all_jobs |-> <<>>, raised |-> TRUE]
    ELSE WalkDepartments([all_jobs |-> <<>>, raised |-> FALSE],
                         response, config.company)

\* JobScanner.fetch_greenhouse_jobs: line 107 returns all_jobs whatever happened
fetch_greenhouse_jobs(config, response, http_error) ==
    GreenhouseRun(config, response, http_error).all_jobs

\* line 178: the posting's URL from its id
AshbyUrl(id) == "ashby/openai/" \o id

\* line 168: location_name += f" + {n} other locations"
OtherLocations(name, n) == PyStr(name.str \o " + " \o ToString(n) \o " other locations")

\* lines 166-181: the body of `for job in job_postings`
NormalizePosting(st, job, company) ==
    LET location_name == Get(job, "locationName", PyStr("Remote"))
        secondary     == Get(job, "secondaryLocations", <<>>)
    IN  IF IsNull(job)
        THEN [st EXCEPT !.raised = TRUE]
        ELSE IF secondary # <<>> /\ IsNull(location_name)
        THEN [st EXCEPT !.raised = TRUE]
        ELSE IF "title" \notin DOMAIN job \/ "id" \notin DOMAIN job
        THEN [st EXCEPT !.raised = TRUE]
        ELSE [st EXCEPT !.all_jobs =
                 Append(@, [title        |-> job.title,
                            location     |-> [name |-> IF secondary # <<>>
                                                       THEN OtherLocations(location_name,
                                                                           Len(secondary))
                                                       ELSE location_name],
                            absolute_url |-> AshbyUrl(job.id),
                            company      |-> company])]

RECURSIVE NormalizePostings(_, _, _)
\* line 165: for job in job_postings
NormalizePostings(st, job_postings, company) ==
    IF st.raised \/ job_postings = <<>> THEN st
    ELSE NormalizePostings(NormalizePosting(st, Head(job_postings), company),
                           Tail(job_postings), company)

\* JobScanner.fetch_openai_jobs as [all_jobs, raised]; http_error: the request of
\* lines 155-156 raises
OpenAIRun(config, response, http_error) ==
    IF http_error
    THEN [all_jobs |-> <<>>, raised |-> TRUE]
    ELSE NormalizePostings([all_jobs |-> <<>>, raised |-> FALSE],
                           response, config.company)

\* JobScanner.fetch_openai_jobs: line 186 returns all_jobs whatever happened
fetch_openai_jobs(config, response, http_error) ==
    OpenAIRun(config, response, http_error).all_jobs

\* one adapter call of fetch_jobs (lines 193-199) as [all_jobs, raised]
AdapterRun(config, response, http_error) ==
    IF config.type = "greenhouse" THEN GreenhouseRun(config, response, http_error)
    ELSE IF config.type = "openai" THEN OpenAIRun(config, response, http_error)
    ELSE [all_jobs |-> <<>>, raised |-> FALSE]

RECURSIVE FetchFrom(_, _, _)
\* the loop of fetch_jobs from source i on; failing: the sources whose request raises
FetchFrom(i, responses, failing) ==
    IF i > Len(api_config) THEN <<>>
    ELSE LET config == api_config[i]
             jobs   == IF config.type = "greenhouse"
                       THEN fetch_greenhouse_jobs(config, responses[i], i \in failing)
                       ELSE IF config.type = "openai"
                       THEN fetch_openai_jobs(config, responses[i], i \in failing)
                       ELSE <<>>
         IN  jobs \o FetchFrom(i + 1, responses, failing)

\* JobScanner.fetch_jobs
fetch_jobs(responses, failing) == FetchFrom(1, responses, failing)

----------------------------------------------------------------------------
(* What the three APIs may serve.                                           *)

TitleEngineer == <<"E", "n", "g">>

TitleRecruiter == <<"R", "e", "c">>

GhJob(title, url) ==
    [title |-> title, absolute_url |-> url, location |-> [name |-> PyStr("London")]]

J1 == GhJob(TitleEngineer, "x/1")

J2 == GhJob(TitleRecruiter, "x/2")

J3 == GhJob(TitleEngineer, "x/3")

\* a posting with a location and two secondary locations
P1 == [id |-> "7", title |-> TitleEngineer, locationName |-> PyStr("NYC"),
       secondaryLocations |-> <<"SF", "LON">>]

\* a posting without locationName and without secondaryLocations
P2 == [id |-> "8", title |-> TitleEngineer]

\* a posting whose locationName is null, without secondary locations
P3 == [id |-> "9", title |-> TitleRecruiter, locationName |-> JsonNull,
       secondaryLocations |-> <<>>]

\* a posting whose locationName is null, with a secondary location
P4 == [id |-> "10", title |-> TitleEngineer, locationName |-> JsonNull,
       secondaryLocations |-> <<"SF">>]

\* flat boards, every posting well formed
BoardsFlat ==
    << <<[name |-> "Research", jobs |-> <<J1, J2>>]>>,
       <<[name |-> "Product", jobs |-> <<J3>>, children |-> <<>>]>>,
       <<P1>> >>

\* nested departments: J1 listed under a department and under its child, J3
\* under a grandchild
BoardsNested ==
    << <<[name |-> "Research", jobs |-> <<J1>>,
          children |-> <<[name |-> "Science", jobs |-> <<J1>>,
                          children |-> <<[name |-> "Safety", jobs |-> <<J3>>]>>]>>]>>,
       <<>>,
       <<P2, P3>> >>

\* malformed entries behind well-formed ones
BoardsMalformed ==
    << <<[name |-> "Research", jobs |-> <<J1, JsonNull, J2>>]>>,
       <<[name |-> "Product", jobs |-> <<J3>>], JsonNull>>,
       <<P1, P4, P2>> >>

BoardChoices == {BoardsFlat, BoardsNested, BoardsMalformed}

KeywordChoices == { <<>>, << <<"e", "n", "g">> >>, << <<"S", "c", "i">>, <<"E", "N">> >> }

AllUrls == {"x/1", "x/2", "x/3", AshbyUrl("7"), AshbyUrl("8"), AshbyUrl("9"),
            AshbyUrl("10")}

----------------------------------------------------------------------------
(* The seen-set store (MockRedis, or the Redis set of the same name).       *)

\* MockRedis.sismember
sismember(set, value) == value \in set

\* sadd replacing the set by the new member
sadd_overwrite(set, value) == {value}

\* MockRedis.sadd
sadd(set, value) == set \cup {value}

\* is_job_seen with the store's answer negated
is_job_seen_negated(job_url) == ~sismember(seen_jobs, job_url)

\* JobScanner.is_job_seen
is_job_seen(job_url) == sismember(seen_jobs, job_url)

\* JobScanner.mark_job_seen: the store after the call
mark_job_seen(job_url) == sadd(seen_jobs, job_url)

\* only the networked store can fail: MockRedis' methods raise nothing
StoreCanRaise == use_redis

----------------------------------------------------------------------------
(* check_jobs.                                                              *)

Runs == {"A", "B"}

Idle(p) == pc[p] \in {"idle", "done"}

\* the loop body putting the new job in front of the batch
LoopBodyPrepend(batch, job) ==
    IF ~CheckTitleKeywords(job.title, title_keywords) THEN batch
    ELSE IF ~is_job_seen(job.absolute_url) THEN <<job>> \o batch
    ELSE batch

\* the loop body without the keyword test of line 264
LoopBodyNoFilter(batch, job) ==
    IF ~is_job_seen(job.absolute_url) THEN Append(batch, job) ELSE batch

\* the loop body without the membership test of line 270
LoopBodyNoDedupe(batch, job) ==
    IF ~CheckTitleKeywords(job.title, title_keywords) THEN batch
    ELSE Append(batch, job)

\* lines 264-271: new_jobs after the loop body has run on `job`
LoopBody(batch, job) ==
    IF ~CheckTitleKeywords(job.title, title_keywords) THEN batch
    ELSE IF ~is_job_seen(job.absolute_url) THEN Append(batch, job)
    ELSE batch

\* line 273 without the emptiness test
BatchAlways(batch) == TRUE

\* line 273: if new_jobs
BatchNonEmpty(batch) == batch # <<>>

\* send_email_alert called with the first job alone
NotifyFirstOnly(batch) == IF batch = <<>> THEN batch ELSE <<batch[1]>>

\* line 275: the argument of send_email_alert
NotifyArg(batch) == batch

\* send_email_alert without the early return of lines 232-235
send_email_alert_live_only(batch, smtp_ok) == send_emails /\ smtp_ok

\* JobScanner.send_email_alert's return value; smtp_ok: lines 245-247 raise nothing
send_email_alert(batch, smtp_ok) ==
    IF ~send_emails THEN TRUE ELSE smtp_ok

\* send_email_alert without the handler of lines 250-251: the SMTP error leaves it
SentSignalUncaught(result) == IF result THEN "ok" ELSE "raised"

\* lines 242-253: how the call of send_email_alert ends for its caller: it returns
\* sent_email, which the handler of lines 250-251 leaves False
SentSignal(result) == IF result THEN "ok" ELSE "failed"

\* the commit loop entered whatever send_email_alert returned
CommitAlways(result) == TRUE

\* line 275: whether the commit loop is entered
CommitAllowed(result) == result

\* check_jobs without the handler of lines 283-284
ReraiseScanError == "raised"

\* lines 283-284: how check_jobs ends after an exception in its try block
HandleScanError == "returned"

Min(a, b) == IF a < b THEN a ELSE b

\* the deliveries of a URL are counted up to this number: none, one, more
DeliveredCap == 2

\* occurrences of url in a batch
Occurrences(batch, url) == Cardinality({i \in DOMAIN batch : batch[i].absolute_url = url})

UrlsOf(batch) == {batch[i].absolute_url : i \in DOMAIN batch}

\* the record of a cycle that has ended; committed: its delivery succeeded and its
\* commit loop ran to the end; repeat: it followed a committed cycle that had
\* fetched the same jobs
Ended(p, committed) ==
    [valid |-> TRUE, all_jobs |-> all_jobs[p], new_jobs |-> new_jobs[p],
     sent |-> sent[p], sent_ok |-> sent_ok[p], committed |-> committed,
     repeat |-> prev.valid /\ prev.committed /\ prev.all_jobs = all_jobs[p]]

\* the batch of the first cycle that finished its membership loop
FirstBatch(p) ==
    IF first.valid THEN first
    ELSE [valid |-> TRUE, all_jobs |-> all_jobs[p], new_jobs |-> new_jobs[p]]

Init ==
    /\ use_redis \in BOOLEAN
    /\ send_emails \in BOOLEAN
    /\ title_keywords \in KeywordChoices
    /\ boards \in BoardChoices
    /\ seen_jobs = {}
    /\ pc = [p \in Runs |-> "idle"]
    /\ all_jobs = [p \in Runs |-> <<>>]
    /\ new_jobs = [p \in Runs |-> <<>>]
    /\ idx = [p \in Runs |-> 1]
    /\ outcome = [p \in Runs |-> "none"]
    /\ job_title = <<>>
    /\ matches = FALSE
    /\ title_checked = FALSE
    /\ seen_at_start = [p \in Runs |-> {}]
    /\ failed_sources = [p \in Runs |-> {}]
    /\ sent = [p \in Runs |-> <<>>]
    /\ sent_ok = [p \in Runs |-> "none"]
    /\ store_error = [p \in Runs |-> "none"]
    /\ cycles = 0
    /\ delivered = [u \in AllUrls |-> 0]
    /\ prev = [valid |-> FALSE, all_jobs |-> <<>>, new_jobs |-> <<>>, sent |-> <<>>,
               sent_ok |-> "none", committed |-> FALSE, repeat |-> FALSE]
    /\ first = [valid |-> FALSE, all_jobs |-> <<>>, new_jobs |-> <<>>]

\* lines 256-260: check_jobs is entered and fetches; `failing` are the
\* sources whose HTTP request raises in this cycle
Entered(p, failing) ==
    /\ pc[p] \in {"idle", "done"}
    /\ pc' = [pc EXCEPT ![p] = "filter"]
    /\ all_jobs' = [all_jobs EXCEPT ![p] = fetch_jobs(boards, failing)]
    /\ new_jobs' = [new_jobs EXCEPT ![p] = <<>>]
    /\ idx' = [idx EXCEPT ![p] = 1]
    /\ outcome' = [outcome EXCEPT ![p] = "running"]
    /\ seen_at_start' = [seen_at_start EXCEPT ![p] = seen_jobs]
    /\ failed_sources' = [failed_sources EXCEPT ![p] =
           {i \in Sources : AdapterRun(api_config[i], boards[i], i \in failing).raised}]
    /\ sent' = [sent EXCEPT ![p] = <<>>]
    /\ sent_ok' = [sent_ok EXCEPT ![p] = "none"]
    /\ store_error' = [store_error EXCEPT ![p] = "none"]
    /\ UNCHANGED <<use_redis, send_emails, title_keywords, boards, seen_jobs,
                   job_title, matches, title_checked, delivered, prev, first>>

\* one of the first MaxCycles cycles begins
Begin(p, failing) ==
    /\ cycles < MaxCycles
    /\ cycles' = cycles + 1
    /\ Entered(p, failing)

\* check_jobs invoked while no other invocation is running
StartCycle(p) ==
    /\ \A q \in Runs : Idle(q)
    /\ \E failing \in SUBSET Sources : Begin(p, failing)

\* lines 262-271: one iteration of the membership loop
CheckJob(p) ==
    /\ pc[p] = "filter"
    /\ idx[p] <= Len(all_jobs[p])
    /\ LET job == all_jobs[p][idx[p]]
       IN  /\ job_title' = job.title
           /\ matches' = CheckTitleKeywords(job.title, title_keywords)
           /\ title_checked' = TRUE
           /\ new_jobs' = [new_jobs EXCEPT ![p] = LoopBody(@, job)]
    /\ idx' = [idx EXCEPT ![p] = @ + 1]
    /\ UNCHANGED <<use_redis, send_emails, title_keywords, boards, seen_jobs, pc,
                   all_jobs, outcome, seen_at_start, failed_sources, sent, sent_ok,
                   store_error, cycles, delivered, prev, first>>

\* line 270 with the store's error swallowed: the job counts as new and the loop
\* goes on
CheckJobStoreErrorSwallowed(p) ==
    /\ pc[p] = "filter"
    /\ idx[p] <= Len(all_jobs[p])
    /\ StoreCanRaise
    /\ CheckTitleKeywords(all_jobs[p][idx[p]].title, title_keywords)
    /\ job_title' = all_jobs[p][idx[p]].title
    /\ matches' = TRUE
    /\ title_checked' = TRUE
    /\ store_error' = [store_error EXCEPT ![p] = "sismember"]
    /\ new_jobs' = [new_jobs EXCEPT ![p] = Append(@, all_jobs[p][idx[p]])]
    /\ idx' = [idx EXCEPT ![p] = @ + 1]
    /\ UNCHANGED <<use_redis, send_emails, title_keywords, boards, seen_jobs, pc,
                   all_jobs, outcome, seen_at_start, failed_sources, sent,
                   sent_ok, cycles, delivered, prev, first>>

\* line 270 raises inside sismember: the handler of lines 283-284 ends the cycle
CheckJobStoreError(p) ==
    /\ pc[p] = "filter"
    /\ idx[p] <= Len(all_jobs[p])
    /\ StoreCanRaise
    /\ CheckTitleKeywords(all_jobs[p][idx[p]].title, title_keywords)
    /\ job_title' = all_jobs[p][idx[p]].title
    /\ matches' = TRUE
    /\ title_checked' = TRUE
    /\ store_error' = [store_error EXCEPT ![p] = "sismember"]
    /\ pc' = [pc EXCEPT ![p] = "done"]
    /\ outcome' = [outcome EXCEPT ![p] = HandleScanError]
    /\ prev' = Ended(p, FALSE)
    /\ UNCHANGED <<use_redis, send_emails, title_keywords, boards, seen_jobs,
                   all_jobs, new_jobs, idx, seen_at_start, failed_sources, sent,
                   sent_ok, cycles, delivered, first>>

\* lines 273 and 280-281: the batch is empty
NoNewJobs(p) ==
    /\ pc[p] = "filter"
    /\ idx[p] > Len(all_jobs[p])
    /\ ~BatchNonEmpty(new_jobs[p])
    /\ pc' = [pc EXCEPT ![p] = "done"]
    /\ outcome' = [outcome EXCEPT ![p] = "returned"]
    /\ prev' = Ended(p, FALSE)
    /\ first' = FirstBatch(p)
    /\ UNCHANGED <<use_redis, send_emails, title_keywords, boards, seen_jobs,
                   all_jobs, new_jobs, idx, job_title, matches, title_checked,
                   seen_at_start, failed_sources, sent, sent_ok, store_error,
                   cycles, delivered>>

\* lines 273-275 (and 279 when the call returns False): the digest is sent
SendEmailAlert(p) ==
    /\ pc[p] = "filter"
    /\ idx[p] > Len(all_jobs[p])
    /\ BatchNonEmpty(new_jobs[p])
    /\ \E smtp_ok \in BOOLEAN :
         LET arg    == NotifyArg(new_jobs[p])
             result == send_email_alert(arg, smtp_ok)
         IN  /\ sent' = [sent EXCEPT ![p] = Append(@, arg)]
             /\ sent_ok' = [sent_ok EXCEPT ![p] = SentSignal(result)]
             /\ delivered' = IF result
                             THEN [u \in AllUrls |->
                                      Min(delivered[u] + Occurrences(arg, u), DeliveredCap)]
                             ELSE delivered
             /\ IF CommitAllowed(result)
                THEN /\ pc' = [pc EXCEPT ![p] = "commit"]
                     /\ idx' = [idx EXCEPT ![p] = 1]
                     /\ UNCHANGED <<outcome, prev>>
                ELSE /\ pc' = [pc EXCEPT ![p] = "done"]
                     /\ outcome' = [outcome EXCEPT ![p] = "returned"]
                     /\ prev' = [Ended(p, FALSE) EXCEPT !.sent = sent'[p],
                                                        !.sent_ok = sent_ok'[p]]
                     /\ UNCHANGED idx
    /\ first' = FirstBatch(p)
    /\ UNCHANGED <<use_redis, send_emails, title_keywords, boards, seen_jobs,
                   all_jobs, new_jobs, job_title, matches, title_checked,
                   seen_at_start, failed_sources, store_error, cycles>>

\* lines 276-277: one iteration of the commit loop
MarkJobSeen(p) ==
    /\ pc[p] = "commit"
    /\ idx[p] <= Len(new_jobs[p])
    /\ seen_jobs' = mark_job_seen(new_jobs[p][idx[p]].absolute_url)
    /\ idx' = [idx EXCEPT ![p] = @ + 1]
    /\ UNCHANGED <<use_redis, send_emails, title_keywords, boards, pc, all_jobs,
                   new_jobs, outcome, job_title, matches, title_checked,
                   seen_at_start, failed_sources, sent, sent_ok, store_error,
                   cycles, delivered, prev, first>>

\* line 277 raises inside sadd: the handler of lines 283-284 ends the cycle
MarkJobSeenStoreError(p) ==
    /\ pc[p] = "commit"
    /\ idx[p] <= Len(new_jobs[p])
    /\ StoreCanRaise
    /\ store_error' = [store_error EXCEPT ![p] = "sadd"]
    /\ pc' = [pc EXCEPT ![p] = "done"]
    /\ outcome' = [outcome EXCEPT ![p] = HandleScanError]
    /\ prev' = Ended(p, FALSE)
    /\ UNCHANGED <<use_redis, send_emails, title_keywords, boards, seen_jobs,
                   all_jobs, new_jobs, idx, job_title, matches, title_checked,
                   seen_at_start, failed_sources, sent, sent_ok, cycles, delivered,
                   first>>

\* line 279: the commit loop is over and check_jobs returns
Return(p) ==
    /\ pc[p] = "commit"
    /\ idx[p] > Len(new_jobs[p])
    /\ pc' = [pc EXCEPT ![p] = "done"]
    /\ outcome' = [outcome EXCEPT ![p] = "returned"]
    /\ prev' = Ended(p, TRUE)
    /\ UNCHANGED <<use_redis, send_emails, title_keywords, boards, seen_jobs,
                   all_jobs, new_jobs, idx, job_title, matches, title_checked,
                   seen_at_start, failed_sources, sent, sent_ok, store_error,
                   cycles, delivered, first>>

\* the scanner's cycles, one at a time (the scheduler never overlaps them)
Next ==
    \/ StartCycle("A")
    \/ CheckJob("A")
    \/ CheckJobStoreError("A")
    \/ NoNewJobs("A")
    \/ SendEmailAlert("A")
    \/ MarkJobSeen("A")
    \/ MarkJobSeenStoreError("A")
    \/ Return("A")

Spec == Init /\ [][Next]_vars

\* the scheduler starts a cycle, however many have run (they are counted up to
\* MaxCycles); the sources answer every request with the same data
StartAgain(p) ==
    /\ \A q \in Runs : Idle(q)
    /\ cycles' = Min(cycles + 1, MaxCycles)
    /\ Entered(p, {})

\* the scanner run again and again, one cycle at a time
NextRetry ==
    \/ StartAgain("A")
    \/ CheckJob("A")
    \/ CheckJobStoreError("A")
    \/ NoNewJobs("A")
    \/ SendEmailAlert("A")
    \/ MarkJobSeen("A")
    \/ MarkJobSeenStoreError("A")
    \/ Return("A")

\* a send_email_alert call that returns True
Delivery(p) == SendEmailAlert(p) /\ sent_ok'[p] = "ok"

\* the scheduler keeps starting cycles and every started cycle runs on; delivery
\* does not fail for ever
SpecRetry ==
    /\ Init
    /\ [][NextRetry]_vars
    /\ WF_vars(NextRetry)
    /\ SF_vars(Delivery("A"))

\* one invocation of the program (lines 305-306 call check_jobs once), started
\* whatever the other invocation is doing
StartOverlapping(p) ==
    /\ pc[p] = "idle"
    /\ \E failing \in SUBSET Sources : Begin(p, failing)

\* two invocations of the program on the same store, interleaved step by step
NextOverlap ==
    \E p \in Runs :
        \/ StartOverlapping(p)
        \/ CheckJob(p)
        \/ CheckJobStoreError(p)
        \/ NoNewJobs(p)
        \/ SendEmailAlert(p)
        \/ MarkJobSeen(p)
        \/ MarkJobSeenStoreError(p)
        \/ Return(p)

SpecOverlap == Init /\ [][NextOverlap]_vars

----------------------------------------------------------------------------
(* The keyword filter on its own: every title and keyword list up to the    *)
(* bounds, one call of _check_title_keywords.                               *)

FilterAlphabet == {"E", "e", "n"}

StringsUpTo(n) == UNION {[1..k -> FilterAlphabet] : k \in 0..n}

KeywordLists ==
    LET Keywords == StringsUpTo(MaxKeywordLen)
    IN  {<<>>} \cup {<<k>> : k \in Keywords}
               \cup {<<k1, k2>> : k1 \in Keywords, k2 \in Keywords}

InitFilter ==
    /\ use_redis = FALSE
    /\ send_emails = FALSE
    /\ title_keywords \in KeywordLists
    /\ boards = BoardsFlat
    /\ seen_jobs = {}
    /\ pc = [p \in Runs |-> "idle"]
    /\ all_jobs = [p \in Runs |-> <<>>]
    /\ new_jobs = [p \in Runs |-> <<>>]
    /\ idx = [p \in Runs |-> 1]
    /\ outcome = [p \in Runs |-> "none"]
    /\ job_title \in StringsUpTo(MaxTitleLen)
    /\ matches = FALSE
    /\ title_checked = FALSE
    /\ seen_at_start = [p \in Runs |-> {}]
    /\ failed_sources = [p \in Runs |-> {}]
    /\ sent = [p \in Runs |-> <<>>]
    /\ sent_ok = [p \in Runs |-> "none"]
    /\ store_error = [p \in Runs |-> "none"]
    /\ cycles = 0
    /\ delivered = [u \in AllUrls |-> 0]
    /\ prev = [valid |-> FALSE, all_jobs |-> <<>>, new_jobs |-> <<>>, sent |-> <<>>,
               sent_ok |-> "none", committed |-> FALSE, repeat |-> FALSE]
    /\ first = [valid |-> FALSE, all_jobs |-> <<>>, new_jobs |-> <<>>]

\* one call of _check_title_keywords(job_title)
CallCheckTitleKeywords ==
    /\ ~title_checked
    /\ matches' = CheckTitleKeywords(job_title, title_keywords)
    /\ title_checked' = TRUE
    /\ UNCHANGED <<use_redis, send_emails, title_keywords, boards, seen_jobs, pc,
                   all_jobs, new_jobs, idx, outcome, job_title, seen_at_start,
                   failed_sources, sent, sent_ok, store_error, cycles, delivered,
                   prev, first>>

NextFilter == CallCheckTitleKeywords

SpecFilter == InitFilter /\ [][NextFilter]_vars

----------------------------------------------------------------------------
(* Properties.                                                              *)

\* the membership loop of run p has run to its end
BatchComputed(p) ==
    \/ pc[p] = "filter" /\ idx[p] > Len(all_jobs[p])
    \/ pc[p] = "commit"
    \/ pc[p] = "done" /\ store_error[p] # "sismember"

Started(p) == pc[p] # "idle"

TypeOK ==
    /\ seen_jobs \subseteq AllUrls
    /\ \A p \in Runs : pc[p] \in {"idle", "filter", "commit", "done"}
    /\ \A p \in Runs : outcome[p] \in {"none", "running", "returned", "raised"}
    /\ cycles \in 0..MaxCycles

\* what run p has added to the store since its cycle started
Added(p) == seen_jobs \ seen_at_start[p]

(* C1: commit-after-success.  A URL enters the seen-set during a cycle only *)
(* after send_email_alert returned true for the batch holding it; a cycle   *)
(* whose send_email_alert returned false ends with the seen-set it started  *)
(* with; a cycle whose send_email_alert returned true and whose insertions  *)
(* all succeeded ends with every URL of the batch in the seen-set; every    *)
(* URL of the seen-set was in a batch whose delivery was signalled          *)
(* successful.                                                              *)
C1_CommitAfterSuccess ==
    /\ \A p \in Runs : Started(p) =>
          /\ Added(p) # {} =>
                /\ sent_ok[p] = "ok"
                /\ Added(p) \subseteq UrlsOf(sent[p][Len(sent[p])])
          /\ (pc[p] = "done" /\ sent_ok[p] = "failed") => seen_jobs = seen_at_start[p]
          /\ (pc[p] = "done" /\ sent_ok[p] = "ok" /\ store_error[p] = "none") =>
                UrlsOf(new_jobs[p]) \subseteq seen_jobs
    /\ \A u \in seen_jobs : delivered[u] > 0

\* a second cycle delivers and commits a batch of several jobs after a first
\* cycle that committed nothing
C1_Witness ==
    /\ cycles = 2
    /\ pc["A"] = "done"
    /\ sent_ok["A"] = "ok"
    /\ store_error["A"] = "none"
    /\ seen_at_start["A"] = {}
    /\ Len(new_jobs["A"]) >= 2
    /\ UrlsOf(new_jobs["A"]) = seen_jobs

(* C2: commit atomicity.  At the end of every cycle either every URL of the *)
(* cycle's batch has been added to the seen-set or none has.                *)
C2_CommitAtomicity ==
    \A p \in Runs : pc[p] = "done" =>
        \/ UrlsOf(new_jobs[p]) \subseteq seen_jobs
        \/ UrlsOf(new_jobs[p]) \cap seen_jobs = {}

(* C3: at-most-once across cycles.  No batch holds a URL that was in the    *)
(* seen-set when its cycle started, and the cycle that follows a delivered  *)
(* and committed cycle over the same fetched jobs computes an empty batch   *)
(* and sends nothing.                                                       *)
C3_NoRepeatAfterCommit ==
    /\ \A p \in Runs : Started(p) =>
          /\ UrlsOf(new_jobs[p]) \cap seen_at_start[p] = {}
          /\ (pc[p] # "done" /\ prev.valid /\ prev.committed
                 /\ prev.all_jobs = all_jobs[p]) =>
                (new_jobs[p] = <<>> /\ sent[p] = <<>>)
    /\ (prev.valid /\ prev.repeat) => (prev.new_jobs = <<>> /\ prev.sent = <<>>)

\* the cycle after a committed cycle over the same jobs has ended
C3_Witness ==
    /\ cycles = 2
    /\ pc["A"] = "done"
    /\ prev.valid /\ prev.repeat
    /\ Cardinality(seen_jobs) >= 2
    /\ store_error["A"] = "none"
    /\ new_jobs["A"] = <<>>

(* C4: at most one notification per job.  Each URL occurs at most once in   *)
(* the totality of the successfully delivered digests.                      *)
C4_AtMostOneNotification == \A u \in AllUrls : delivered[u] <= 1

\* no send_email_alert call has returned true so far
NoDeliveryYet == \A u \in AllUrls : delivered[u] = 0

(* C5: idempotence under no delivery.  As long as no send_email_alert call  *)
(* has returned true, the seen-set is the initial one and every cycle that  *)
(* fetched the same jobs as the first computes the first cycle's batch.     *)
C5_IdempotentUnderNoDelivery ==
    NoDeliveryYet =>
        /\ seen_jobs = {}
        /\ \A p \in Runs :
              (Started(p) /\ BatchComputed(p) /\ first.valid
                 /\ all_jobs[p] = first.all_jobs) =>
                new_jobs[p] = first.new_jobs

\* a second failed delivery of the batch the first cycle failed to deliver
C5_Witness ==
    /\ NoDeliveryYet
    /\ cycles = 2
    /\ pc["A"] = "done"
    /\ sent_ok["A"] = "failed"
    /\ first.valid
    /\ all_jobs["A"] = first.all_jobs
    /\ Len(new_jobs["A"]) >= 2
    /\ new_jobs["A"] = first.new_jobs

RECURSIVE SucceedingFrom(_, _)
\* the jobs of the adapters from source i on that hit no error
SucceedingFrom(i, failed) ==
    IF i > Len(api_config) THEN <<>>
    ELSE (IF i \in failed THEN <<>>
          ELSE AdapterRun(api_config[i], boards[i], FALSE).all_jobs)
         \o SucceedingFrom(i + 1, failed)

(* C6: adapter isolation.  The combined sequence of a cycle is the          *)
(* concatenation of the jobs of the adapters that hit no error; an adapter  *)
(* that hit an error contributes nothing.                                   *)
C6_AdapterIsolation ==
    \A p \in Runs : Started(p) =>
        all_jobs[p] = SucceedingFrom(1, failed_sources[p])

(* C7: an empty batch is a no-op.  A cycle whose batch is empty ends        *)
(* without a send_email_alert call and with the seen-set it started with.   *)
C7_EmptyBatchNoOp ==
    \A p \in Runs :
        (pc[p] = "done" /\ BatchComputed(p) /\ new_jobs[p] = <<>>) =>
            (sent[p] = <<>> /\ seen_jobs = seen_at_start[p])

\* a cycle whose jobs all pass the filter and are all in the seen-set has ended
C7_Witness ==
    /\ pc["A"] = "done"
    /\ store_error["A"] = "none"
    /\ new_jobs["A"] = <<>>
    /\ all_jobs["A"] # <<>>
    /\ seen_jobs # {}
    /\ title_keywords = <<>>

\* str.upper() on one character
UpperChar(c) ==
    CASE c = "e" -> "E"
      [] c = "n" -> "N"
      [] c = "g" -> "G"
      [] c = "r" -> "R"
      [] c = "c" -> "C"
      [] c = "s" -> "S"
      [] c = "i" -> "I"
      [] OTHER -> c

\* keyword occurs in title, letters compared without regard to case
OccursIgnoringCase(keyword, title) ==
    \E off \in 0..(Len(title) - Len(keyword)) :
        \A i \in 1..Len(keyword) : UpperChar(title[off + i]) = UpperChar(keyword[i])

(* C8: keyword filter.  _check_title_keywords is true for every title when  *)
(* the keyword list is empty, and otherwise exactly when some keyword       *)
(* occurs in the title, letters compared without regard to case.            *)
C8_KeywordFilter ==
    title_checked =>
        (matches <=> (\/ title_keywords = <<>>
                      \/ \E k \in DOMAIN title_keywords :
                            OccursIgnoringCase(title_keywords[k], job_title)))

\* a title matched by the second of two keywords, in another case than written
C8_Witness ==
    /\ title_checked
    /\ matches
    /\ Len(title_keywords) = 2
    /\ Len(title_keywords[2]) = 2
    /\ ~Contains(job_title, title_keywords[2])
    /\ ~OccursIgnoringCase(title_keywords[1], job_title)

(* C9: single digest per cycle.  send_email_alert is called at most once in *)
(* a cycle, only with the whole batch, and exactly once when the batch is   *)
(* not empty.                                                               *)
C9_SingleDigest ==
    \A p \in Runs : Started(p) =>
        /\ Len(sent[p]) <= 1
        /\ \A i \in DOMAIN sent[p] : sent[p][i] = new_jobs[p]
        /\ (pc[p] \in {"commit", "done"} /\ BatchComputed(p) /\ new_jobs[p] # <<>>) =>
              sent[p] = <<new_jobs[p]>>

\* a cycle has sent one digest for a batch of several jobs
C9_Witness ==
    /\ pc["A"] = "done"
    /\ Len(new_jobs["A"]) >= 3
    /\ sent["A"] = <<new_jobs["A"]>>

(* C10, as claimed: a cycle in which a store call raised ends with the      *)
(* error propagating out of check_jobs, every other cycle returns normally. *)
C10_StoreErrorsPropagate ==
    \A p \in Runs : pc[p] = "done" =>
        /\ store_error[p] # "none" => outcome[p] = "raised"
        /\ store_error[p] = "none" => outcome[p] = "returned"

(* C10, amended: check_jobs returns normally from every cycle, also from    *)
(* one in which a store call raised: the handler of lines 283-284 catches   *)
(* the error and the rest of the cycle is skipped.                          *)
C10_EveryCycleReturns ==
    \A p \in Runs : pc[p] = "done" =>
        /\ outcome[p] = "returned"
        /\ store_error[p] = "sismember" => (sent[p] = <<>> /\ Added(p) = {})
        /\ store_error[p] = "sadd" => idx[p] <= Len(new_jobs[p])

\* a cycle in which sadd raised after an insertion has ended
C10_Witness ==
    /\ pc["A"] = "done"
    /\ store_error["A"] = "sadd"
    /\ outcome["A"] = "returned"
    /\ idx["A"] = 2

(* C11: delivery failure is contained.  In live mode an error raised while  *)
(* connecting, authenticating or sending never leaves send_email_alert: the *)
(* call returns false, the cycle inserts nothing into the seen-set and      *)
(* check_jobs returns normally.                                             *)
C11_DeliveryFailureContained ==
    \A p \in Runs : Started(p) =>
        /\ sent_ok[p] # "raised"
        /\ sent_ok[p] = "failed" =>
              /\ send_emails
              /\ pc[p] = "done"
              /\ outcome[p] = "returned"
              /\ store_error[p] = "none"
              /\ seen_jobs = seen_at_start[p]

\* a live cycle whose delivery failed for a batch of several jobs has ended
C11_Witness ==
    /\ send_emails
    /\ pc["A"] = "done"
    /\ sent_ok["A"] = "failed"
    /\ Len(new_jobs["A"]) >= 2
    /\ outcome["A"] = "returned"

(* C12: dry-run commits.  With send_emails false every send_email_alert     *)
(* call returns true, and a cycle with a non-empty batch takes the commit   *)
(* path of a successful live delivery: when no insertion raises, it ends    *)
(* with every URL of the batch in the seen-set.                             *)
C12_DryRunCommits ==
    ~send_emails =>
        \A p \in Runs : Started(p) =>
            /\ sent_ok[p] \in {"none", "ok"}
            /\ (BatchComputed(p) /\ new_jobs[p] # <<>> /\ pc[p] \in {"commit", "done"}) =>
                  sent_ok[p] = "ok"
            /\ (pc[p] = "done" /\ BatchComputed(p) /\ new_jobs[p] # <<>>
                  /\ store_error[p] = "none") =>
                  UrlsOf(new_jobs[p]) \subseteq seen_jobs

\* a dry-run cycle has committed a batch of several jobs
C12_Witness ==
    /\ ~send_emails
    /\ pc["A"] = "done"
    /\ sent_ok["A"] = "ok"
    /\ store_error["A"] = "none"
    /\ Len(new_jobs["A"]) >= 2
    /\ UrlsOf(new_jobs["A"]) \subseteq seen_jobs
    /\ seen_at_start["A"] = {}

\* a raw job with the company label added
Stamped(job, company) ==
    [k \in DOMAIN job \cup {"company"} |-> IF k = "company" THEN company ELSE job[k]]

\* the jobs listed by one department itself
OwnJobs(dept) ==
    LET jobs == Get(dept, "jobs", <<>>)
    IN  {jobs[k] : k \in {n \in DOMAIN jobs : ~IsNull(jobs[n])}}

RECURSIVE TreeJobs(_)
\* the jobs of the departments and of all their descendants
TreeJobs(departments) ==
    IF departments = <<>> THEN {}
    ELSE LET dept == Head(departments)
         IN  (IF IsNull(dept) THEN {}
              ELSE OwnJobs(dept) \cup TreeJobs(Get(dept, "children", <<>>)))
             \cup TreeJobs(Tail(departments))

(* C13: tree-listing flattening.  The jobs fetched from a Greenhouse source *)
(* whose adapter hit no error hold every job of every department and of     *)
(* every descendant department, stamped with the source's company.          *)
C13_TreeFlattening ==
    \A p \in Runs : Started(p) =>
        \A i \in Sources :
            (api_config[i].type = "greenhouse" /\ i \notin failed_sources[p]) =>
                \A job \in TreeJobs(boards[i]) :
                    \E k \in DOMAIN all_jobs[p] :
                        all_jobs[p][k] = Stamped(job, api_config[i].company)

\* the posting names a location (the key is present and not null)
HasLocationName(posting) ==
    "locationName" \in DOMAIN posting /\ ~IsNull(posting.locationName)

\* the jobs of run p made from the posting of source i
JobsFromPosting(p, i, posting) ==
    {all_jobs[p][k] : k \in {n \in DOMAIN all_jobs[p] :
        /\ all_jobs[p][n].company = api_config[i].company
        /\ all_jobs[p][n].absolute_url = AshbyUrl(posting.id)}}

(* C14: query-adapter location normalization.  When the query API answered, *)
(* every posting has a job; the job's location name is "Remote" when the    *)
(* posting has no location name (missing or null) and no secondary          *)
(* locations, and "<locationName> + N other locations" when it has a        *)
(* location name and N >= 1 secondary locations.                            *)
C14_LocationNormalization ==
    \A p \in Runs : Started(p) =>
        \A i \in Sources :
            (/\ api_config[i].type = "openai"
             /\ \/ i \notin failed_sources[p]
                \/ \E k \in DOMAIN all_jobs[p] :
                      all_jobs[p][k].company = api_config[i].company) =>
                \A n \in DOMAIN boards[i] :
                    LET posting   == boards[i][n]
                        secondary == Get(posting, "secondaryLocations", <<>>)
                        jobs      == JobsFromPosting(p, i, posting)
                    IN  /\ jobs # {}
                        /\ \A job \in jobs :
                              /\ (~HasLocationName(posting) /\ secondary = <<>>) =>
                                    job.location.name = PyStr("Remote")
                              /\ (HasLocationName(posting) /\ secondary # <<>>) =>
                                    job.location.name =
                                        PyStr(posting.locationName.str \o " + "
                                              \o ToString(Len(secondary))
                                              \o " other locations")

\* the title holds one of the configured keywords, whatever the case of the letters
PassesFilter(title) ==
    \/ title_keywords = <<>>
    \/ \E k \in DOMAIN title_keywords : OccursIgnoringCase(title_keywords[k], title)

\* the jobs of `jobs`, in order, that pass the filter and were not seen when the
\* cycle of run p started
NewAmong(p, jobs) ==
    LET Eligible(job) == /\ PassesFilter(job.title)
                         /\ job.absolute_url \notin seen_at_start[p]
    IN  SelectSeq(jobs, Eligible)

(* C15: batch contents and order.  The fetched sequence of a cycle is the   *)
(* adapters' results in registry order, and the batch is the subsequence of *)
(* it, in its order, of the jobs whose title passes the keyword filter and  *)
(* whose URL is not in the seen-set.                                        *)
C15_BatchContents ==
    \A p \in Runs : Started(p) =>
        /\ \E failing \in SUBSET Sources : all_jobs[p] = SucceedingFrom(1, failing)
        /\ BatchComputed(p) => new_jobs[p] = NewAmong(p, all_jobs[p])
        /\ pc[p] = "filter" =>
              new_jobs[p] = NewAmong(p, SubSeq(all_jobs[p], 1, idx[p] - 1))

\* a batch of several jobs from which the filter and the seen-set each kept a job
C15_Witness ==
    /\ pc["A"] = "done"
    /\ BatchComputed("A")
    /\ Len(new_jobs["A"]) >= 2
    /\ \E k \in DOMAIN all_jobs["A"] : ~PassesFilter(all_jobs["A"][k].title)
    /\ \E k \in DOMAIN all_jobs["A"] :
          /\ PassesFilter(all_jobs["A"][k].title)
          /\ all_jobs["A"][k].absolute_url \in seen_at_start["A"]

\* every job the adapters can return from what the APIs serve
SourceJobs ==
    UNION {LET jobs == AdapterRun(api_config[i], boards[i], FALSE).all_jobs
           IN  {jobs[k] : k \in DOMAIN jobs} : i \in Sources}

(* C16: filtered-out jobs are never recorded.  Every job of a batch passes  *)
(* the keyword filter, and every URL of the seen-set is the URL of a source *)
(* job whose title passes it.                                               *)
C16_FilteredNeverRecorded ==
    /\ \A p \in Runs : \A k \in DOMAIN new_jobs[p] : PassesFilter(new_jobs[p][k].title)
    /\ \A u \in seen_jobs :
          \E job \in SourceJobs : job.absolute_url = u /\ PassesFilter(job.title)

\* a committed cycle that fetched a job failing the filter
C16_Witness ==
    /\ pc["A"] = "done"
    /\ sent_ok["A"] = "ok"
    /\ store_error["A"] = "none"
    /\ seen_jobs # {}
    /\ \E k \in DOMAIN all_jobs["A"] :
          /\ ~PassesFilter(all_jobs["A"][k].title)
          /\ all_jobs["A"][k].absolute_url \notin seen_jobs

(* C18: seen-set monotonicity.  No step removes a URL from the seen-set.    *)
C18_SeenSetMonotone == [][seen_jobs \subseteq seen_jobs']_vars

\* a second cycle has added URLs to those a first cycle had committed
C18_Witness ==
    /\ cycles = 2
    /\ pc["A"] = "done"
    /\ seen_at_start["A"] # {}
    /\ Added("A") # {}
    /\ seen_at_start["A"] \subseteq seen_jobs

(* C20: a store failure during the membership phase is free of side         *)
(* effects.  A cycle in which a membership test raised calls                *)
(* send_email_alert never and inserts nothing: the seen-set is the one the  *)
(* cycle started with.                                                      *)
C20_MembershipFailureNoEffect ==
    \A p \in Runs : store_error[p] = "sismember" =>
        /\ pc[p] = "done"
        /\ sent[p] = <<>>
        /\ sent_ok[p] = "none"
        /\ seen_jobs = seen_at_start[p]

\* a membership test raised after an earlier test of the cycle had found a new job
C20_Witness ==
    /\ store_error["A"] = "sismember"
    /\ pc["A"] = "done"
    /\ new_jobs["A"] # <<>>
    /\ idx["A"] <= Len(all_jobs["A"])

(* C19: overlapping runs can double-notify.  The store is the only guard of *)
(* check_jobs: a batch holds no URL that was in the seen-set when its cycle *)
(* started, and a finished membership loop has kept every fetched job that  *)
(* passes the filter and whose URL is not in the seen-set, whatever the     *)
(* other run holds in its batch.  (C19_Witness is the double notification.) *)
C19_OnlyTheStoreGuards ==
    \A p \in Runs : Started(p) =>
        /\ UrlsOf(new_jobs[p]) \cap seen_at_start[p] = {}
        /\ (pc[p] = "filter" /\ idx[p] > Len(all_jobs[p])) =>
              \A k \in DOMAIN all_jobs[p] :
                  (/\ PassesFilter(all_jobs[p][k].title)
                   /\ all_jobs[p][k].absolute_url \notin seen_jobs) =>
                      \E m \in DOMAIN new_jobs[p] : new_jobs[p][m] = all_jobs[p][k]

\* both runs tested a URL before either committed it, and both delivered a batch
\* that lists it once
C19_Witness ==
    \E u \in AllUrls :
        /\ \A p \in Runs :
              /\ sent_ok[p] = "ok"
              /\ u \notin seen_at_start[p]
              /\ Len(sent[p]) = 1
              /\ Occurrences(sent[p][1], u) = 1
        /\ delivered[u] = 2

\* every source job whose title passes the filter has its URL in the seen-set
AllPassingSeen ==
    \A job \in SourceJobs : PassesFilter(job.title) => job.absolute_url \in seen_jobs

\* the cycle before that of run p failed to deliver its batch, and run p has fetched
\* the same jobs and computed its own batch
RetryOf(p) ==
    /\ pc[p] \in {"filter", "commit"}
    /\ BatchComputed(p)
    /\ prev.valid
    /\ prev.sent_ok = "failed"
    /\ prev.all_jobs = all_jobs[p]

\* the batch after a failed delivery holds every job of the failed batch
RetriedOnNextCycle ==
    \A p \in Runs :
        RetryOf(p) => \A k \in DOMAIN prev.new_jobs :
                          \E m \in DOMAIN new_jobs[p] : new_jobs[p][m] = prev.new_jobs[k]

\* a cycle that started with every passing source job in the seen-set has an empty
\* batch
QuietOnceSeen ==
    \A p \in Runs :
        /\ Started(p)
        /\ BatchComputed(p)
        /\ \A job \in SourceJobs :
               PassesFilter(job.title) => job.absolute_url \in seen_at_start[p]
        => new_jobs[p] = <<>>

\* a cycle has ended whose delivery succeeded
DeliverySucceeded == pc["A"] = "done" /\ sent_ok["A"] = "ok"

\* a cycle has run to its end: no store error, and no delivery that failed
CleanCycle == pc["A"] = "done" /\ store_error["A"] = "none" /\ sent_ok["A"] # "failed"

====
